---- MODULE Spec2Model ----
(***************************************************************************)
(* Model of the univor mock hypervisor and of its connection manager.     *)
(*                                                                         *)
(*   - mock_hypervisor/daemon.py: the in-memory VM store `mock_vms` and    *)
(*     the REST handlers that read and mutate it;                          *)
(*   - connectors/connections_manager.py: the module-level session cache  *)
(*     `_active_sessions` and get_session;                                 *)
(*   - connectors/mock_hypervisor_connector.py: MockvisorSession.          *)
(*                                                                         *)
(* JSON values.  A Python str is a tuple of one-character strings, so     *)
(* that str.strip() is computed and not assumed.  A `name` value is a     *)
(* tagged record [t, s]: t = "str" with the characters in s, or another   *)
(* tag for a JSON value that is not a string.  Identifiers and statuses   *)
(* are TLA+ strings.  A dict is a function whose DOMAIN is its key set;   *)
(* an optional value (dict.get) is a sequence of length 0 (None) or 1.    *)
(***************************************************************************)
EXTENDS Integers, Sequences, FiniteSets, TLC

\* ------------------------------------------------------------------ bounds
MaxVMs == 2          \* records the store may hold
MaxSessions == 2     \* MockvisorSession objects ever constructed

\* ------------------------------------------------------------- JSON values
Str(chars) == [t |-> "str", s |-> chars]
NotAStr    == [t |-> "int", s |-> <<>>]

Whitespace == {" "}

RECURSIVE lstrip(_)
lstrip(s) == IF s # <<>> /\ Head(s) \in Whitespace THEN lstrip(Tail(s)) ELSE s

RECURSIVE rstrip(_)
rstrip(s) ==
    IF s # <<>> /\ s[Len(s)] \in Whitespace
    THEN rstrip(SubSeq(s, 1, Len(s) - 1))
    ELSE s

\* str.strip()
strip(s) == rstrip(lstrip(s))

\* isinstance(v, str)
isinstance_str(v) == v.t = "str"

\* dict.get(key): None is <<>>, a value v is <<v>>
Get(d, k) == IF k \in DOMAIN d THEN <<d[k]>> ELSE <<>>

\* dict.update(other) and d[k] = v: the right operand yields to the left
DictUpdate(d, other) == other @@ d

EmptyDict == [k \in {} |-> 0]

Item(k, v) == [x \in {k} |-> v]

\* ------------------------------------------------------- request payloads
ValidNames   == {Str(<<"a">>), Str(<<"a", "b">>)}
InvalidNames == {Str(<<>>), Str(<<" ">>), NotAStr}
NameVals     == ValidNames \cup InvalidNames

VMLabel(i) == "VM" \o ToString(i)

GeneratedIds == {VMLabel(i) : i \in 1..MaxVMs}
PathIds      == GeneratedIds \cup {"nonexistent"}
IdVals       == {"", "VM2"}
StatusVals   == {"running"}

Field(k, S) == {EmptyDict} \cup {Item(k, v) : v \in S}

Payloads ==
    {n @@ i @@ s :
        n \in Field("name", NameVals), i \in Field("id", IdVals),
        s \in Field("status", StatusVals)}

\* the bodies sent to PUT /vms/{vm_id}
Updates == {d \in Payloads : "id" \in DOMAIN d => d["id"] # ""}

\* bodies that carry a configuration: name, cpu and memory
CfgNames   == {Str(<<"a">>), Str(<<"a", "b">>), Str(<<>>)}
Sizes      == {Item("cpu", 2) @@ Item("memory", 2048),
               Item("cpu", 4) @@ Item("memory", 4096)}

Configs ==
    {n @@ r : n \in Field("name", CfgNames), r \in {EmptyDict} \cup Sizes}

\* a body whose cpu and memory are below the minimum of 1
EdgeConfigs == {Item("name", Str(<<"a">>)) @@ Item("cpu", 0) @@ Item("memory", 0)}

Actions == {"start", "stop", "pause", "resume"}
PathActions == Actions \cup {"reboot"}

\* --------------------------------------------------------------- the state
VARIABLES
    mock_vms,           \* daemon.py: vm_id -> VM dict
    resp,               \* the last HTTP exchange: [op (the handler), code, body]
    _active_sessions,   \* connections_manager.py: <<host_URL, user>> -> session
    sessions,           \* the MockvisorSession objects constructed so far
    pc,                 \* per caller: position inside get_session
    frame,              \* per caller: the locals of get_session
    ret,                \* per caller: outcome of its last get_session call
    _config,            \* the MockVMConnector in hand: its local copy, if any
    call,               \* the last connector call: [method, raised ("" if none)]
    net,                \* the transport to the daemon: "up", "down" or "lossy"
    handling,           \* per worker thread of the daemon: the vm_lifecycle
                        \* request it handles, its position and its answer
    daemon,             \* the daemon process: shutdown_event, the position of
                        \* run()'s main thread, the server thread, the last
                        \* /status answer and the last launcher status message
    launcher            \* the launcher command in progress: its position, its
                        \* locals, the daemon's stdout pipe and its last result

storeVars == <<mock_vms, resp>>
regVars   == <<_active_sessions, sessions, pc, frame, ret>>
connVars  == <<_config, call, net, handling, daemon, launcher>>
vars      == <<mock_vms, resp, _active_sessions, sessions, pc, frame, ret,
               _config, call, net, handling, daemon, launcher>>

Response(op, code, body) == [op |-> op, code |-> code, body |-> body]
Error(msg) == Item("error", msg)

\* ------------------------------------------------------------ the VM store

\* generate_vm_id that counts the records instead of looking for a free label
generate_vm_id_count(supplied_id) ==
    IF supplied_id # <<>> /\ supplied_id[1] # ""
    THEN supplied_id[1]
    ELSE VMLabel(Cardinality(DOMAIN mock_vms) + 1)

\* generate_vm_id(supplied_id): supplied_id is dict.get's optional value
generate_vm_id(supplied_id) ==
    LET existing_ids == DOMAIN mock_vms
    IN  IF supplied_id # <<>> /\ supplied_id[1] # ""
        THEN supplied_id[1]
        ELSE VMLabel(CHOOSE i \in 1..(Cardinality(existing_ids) + 1) :
                        /\ VMLabel(i) \notin existing_ids
                        /\ \A j \in 1..(i - 1) : VMLabel(j) \in existing_ids)

\* name_ok without the strip(): a blank name passes
name_ok_nostrip(d) ==
    /\ "name" \in DOMAIN d
    /\ isinstance_str(d["name"])
    /\ d["name"].s # <<>>

\* the check of create_vm, line 81, and of clone_vm, line 160
name_ok(d) ==
    /\ "name" \in DOMAIN d
    /\ isinstance_str(d["name"])
    /\ strip(d["name"].s) # <<>>

\* create_vm that stores the name only and drops the other supplied fields
create_vm_name_only(vm) ==
    /\ IF ~name_ok(vm)
       THEN /\ resp' = Response("create_vm", 422, Error("Missing or invalid 'name' field"))
            /\ UNCHANGED mock_vms
       ELSE LET vm_id  == generate_vm_id(Get(vm, "id"))
                stored == Item("status", "stopped") @@ Item("id", vm_id)
                             @@ Item("name", vm["name"])
            IN  /\ vm_id \in DOMAIN mock_vms \/ Cardinality(DOMAIN mock_vms) < MaxVMs
                /\ mock_vms' = Item(vm_id, stored) @@ mock_vms
                /\ resp' = Response("create_vm", 201, stored)
    /\ UNCHANGED regVars

\* POST /vms
create_vm(vm) ==
    /\ IF ~name_ok(vm)
       THEN /\ resp' = Response("create_vm", 422, Error("Missing or invalid 'name' field"))
            /\ UNCHANGED mock_vms
       ELSE LET vm_id  == generate_vm_id(Get(vm, "id"))
                stored == Item("status", "stopped") @@ Item("id", vm_id) @@ vm
            IN  /\ vm_id \in DOMAIN mock_vms \/ Cardinality(DOMAIN mock_vms) < MaxVMs
                /\ mock_vms' = Item(vm_id, stored) @@ mock_vms
                /\ resp' = Response("create_vm", 201, stored)

\* get_vm that searches the records for the `id` field instead of the key
get_vm_by_field(vm_id) ==
    LET found == {k \in DOMAIN mock_vms : mock_vms[k]["id"] = vm_id}
    IN  /\ IF found = {}
           THEN resp' = Response("get_vm", 404, Error("VM not found"))
           ELSE \E k \in found : resp' = Response("get_vm", 200, mock_vms[k])
        /\ UNCHANGED mock_vms

\* GET /vms/{vm_id}
get_vm(vm_id) ==
    /\ IF vm_id \notin DOMAIN mock_vms
       THEN resp' = Response("get_vm", 404, Error("VM not found"))
       ELSE resp' = Response("get_vm", 200, mock_vms[vm_id])
    /\ UNCHANGED mock_vms

\* update_vm that merges the body before it validates the name
update_vm_merge_first(vm_id, update) ==
    /\ IF vm_id \notin DOMAIN mock_vms
       THEN /\ resp' = Response("update_vm", 404, Error("VM not found"))
            /\ UNCHANGED mock_vms
       ELSE LET vm == DictUpdate(mock_vms[vm_id], update)
            IN  /\ mock_vms' = [mock_vms EXCEPT ![vm_id] = vm]
                /\ IF "name" \in DOMAIN update /\ ~name_ok(update)
                   THEN resp' = Response("update_vm", 422,
                                    Error("Missing or invalid 'name' field in update"))
                   ELSE resp' = Response("update_vm", 200, vm)

\* PUT /vms/{vm_id}
update_vm(vm_id, update) ==
    /\ IF vm_id \notin DOMAIN mock_vms
       THEN /\ resp' = Response("update_vm", 404, Error("VM not found"))
            /\ UNCHANGED mock_vms
       ELSE IF "name" \in DOMAIN update /\ ~name_ok(update)
       THEN /\ resp' = Response("update_vm", 422, Error("Missing or invalid 'name' field in update"))
            /\ UNCHANGED mock_vms
       ELSE LET vm == DictUpdate(mock_vms[vm_id], update)
            IN  /\ mock_vms' = [mock_vms EXCEPT ![vm_id] = vm]
                /\ resp' = Response("update_vm", 200, vm)

\* `sub in s` on two strings
contains(s, sub) ==
    \E i \in 0..(Len(s) - Len(sub)) : SubSeq(s, i + 1, i + Len(sub)) = sub

\* the list of the records under `keys`, its order left out: every record
\* with the number of times it occurs
ListOf(keys) ==
    [r \in {mock_vms[k] : k \in keys} |-> Cardinality({k \in keys : mock_vms[k] = r})]

\* the `search` query parameter: absent (None) or a string
NoSearch == <<>>
Searches ==
    {NoSearch} \cup {<<q>> : q \in {<<>>, <<"a">>, <<"b">>, <<"a", "b">>, <<"b", "a">>}}

\* list_vms that keeps the records whose name starts with `search`
list_vms_prefix(search) ==
    /\ IF search = NoSearch \/ search[1] = <<>>
       THEN resp' = Response("list_vms", 200, ListOf(DOMAIN mock_vms))
       ELSE LET filtered == {k \in DOMAIN mock_vms :
                                /\ Len(search[1]) <= Len(mock_vms[k]["name"].s)
                                /\ SubSeq(mock_vms[k]["name"].s, 1, Len(search[1]))
                                      = search[1]}
            IN  resp' = Response("list_vms", 200, ListOf(filtered))
    /\ UNCHANGED mock_vms

\* GET /vms
list_vms(search) ==
    /\ IF search = NoSearch \/ search[1] = <<>>
       THEN resp' = Response("list_vms", 200, ListOf(DOMAIN mock_vms))
       ELSE LET filtered == {k \in DOMAIN mock_vms :
                                contains(mock_vms[k]["name"].s, search[1])}
            IN  resp' = Response("list_vms", 200, ListOf(filtered))
    /\ UNCHANGED mock_vms

\* delete_vm that empties the store
delete_vm_all(vm_id) ==
    /\ IF vm_id \in DOMAIN mock_vms
       THEN /\ mock_vms' = EmptyDict
            /\ resp' = Response("delete_vm", 204, EmptyDict)
       ELSE /\ resp' = Response("delete_vm", 404, Error("VM not found"))
            /\ UNCHANGED mock_vms

\* DELETE /vms/{vm_id}
delete_vm(vm_id) ==
    /\ IF vm_id \in DOMAIN mock_vms
       THEN /\ mock_vms' = [k \in DOMAIN mock_vms \ {vm_id} |-> mock_vms[k]]
            /\ resp' = Response("delete_vm", 204, EmptyDict)
       ELSE /\ resp' = Response("delete_vm", 404, Error("VM not found"))
            /\ UNCHANGED mock_vms

\* clone_vm without the reset of the status: the copy keeps the source's
clone_vm_keeps_status(vm_id, clone) ==
    /\ IF vm_id \notin DOMAIN mock_vms
       THEN /\ resp' = Response("clone_vm", 404, Error("VM not found"))
            /\ UNCHANGED mock_vms
       ELSE IF ~name_ok(clone)
       THEN /\ resp' = Response("clone_vm", 422, Error("Missing or invalid 'name' field in clone"))
            /\ UNCHANGED mock_vms
       ELSE LET orig      == mock_vms[vm_id]
                new_vm_id == generate_vm_id(Get(clone, "id"))
                new_vm    == Item("name", clone["name"]) @@ Item("id", new_vm_id) @@ orig
            IN  /\ new_vm_id \in DOMAIN mock_vms \/ Cardinality(DOMAIN mock_vms) < MaxVMs
                /\ mock_vms' = Item(new_vm_id, new_vm) @@ mock_vms
                /\ resp' = Response("clone_vm", 201, new_vm)

\* POST /vms/{vm_id}/clone
clone_vm(vm_id, clone) ==
    /\ IF vm_id \notin DOMAIN mock_vms
       THEN /\ resp' = Response("clone_vm", 404, Error("VM not found"))
            /\ UNCHANGED mock_vms
       ELSE IF ~name_ok(clone)
       THEN /\ resp' = Response("clone_vm", 422, Error("Missing or invalid 'name' field in clone"))
            /\ UNCHANGED mock_vms
       ELSE LET orig      == mock_vms[vm_id]
                new_vm_id == generate_vm_id(Get(clone, "id"))
                new_vm    == Item("status", "stopped") @@ Item("name", clone["name"])
                                @@ Item("id", new_vm_id) @@ orig
            IN  /\ new_vm_id \in DOMAIN mock_vms \/ Cardinality(DOMAIN mock_vms) < MaxVMs
                /\ mock_vms' = Item(new_vm_id, new_vm) @@ mock_vms
                /\ resp' = Response("clone_vm", 201, new_vm)

\* new_status with the entries of pause and resume exchanged
new_status_swapped(action) ==
    CASE action = "start"  -> "running"
      [] action = "stop"   -> "stopped"
      [] action = "pause"  -> "running"
      [] action = "resume" -> "paused"

\* the dict literal of vm_lifecycle, lines 180-185
new_status(action) ==
    CASE action = "start"  -> "running"
      [] action = "stop"   -> "stopped"
      [] action = "pause"  -> "paused"
      [] action = "resume" -> "running"

\* vm_lifecycle that checks the action before it looks the VM up
vm_lifecycle_action_first(vm_id, action) ==
    /\ IF action \notin Actions
       THEN /\ resp' = Response("vm_lifecycle", 400, Error("Invalid action"))
            /\ UNCHANGED mock_vms
       ELSE IF vm_id \notin DOMAIN mock_vms
       THEN /\ resp' = Response("vm_lifecycle", 404, Error("VM not found"))
            /\ UNCHANGED mock_vms
       ELSE LET vm == Item("status", new_status(action)) @@ mock_vms[vm_id]
            IN  /\ mock_vms' = [mock_vms EXCEPT ![vm_id] = vm]
                /\ resp' = Response("vm_lifecycle", 200, vm)

\* vm_lifecycle that stores a new record with the id, the name and the status
vm_lifecycle_new_record(vm_id, action) ==
    /\ IF vm_id \notin DOMAIN mock_vms
       THEN /\ resp' = Response("vm_lifecycle", 404, Error("VM not found"))
            /\ UNCHANGED mock_vms
       ELSE IF action \notin Actions
       THEN /\ resp' = Response("vm_lifecycle", 400, Error("Invalid action"))
            /\ UNCHANGED mock_vms
       ELSE LET vm == Item("status", new_status(action)) @@ Item("id", vm_id)
                         @@ Item("name", mock_vms[vm_id]["name"])
            IN  /\ mock_vms' = [mock_vms EXCEPT ![vm_id] = vm]
                /\ resp' = Response("vm_lifecycle", 200, vm)

\* POST /vms/{vm_id}/{action}
vm_lifecycle(vm_id, action) ==
    /\ IF vm_id \notin DOMAIN mock_vms
       THEN /\ resp' = Response("vm_lifecycle", 404, Error("VM not found"))
            /\ UNCHANGED mock_vms
       ELSE IF action \notin Actions
       THEN /\ resp' = Response("vm_lifecycle", 400, Error("Invalid action"))
            /\ UNCHANGED mock_vms
       ELSE LET vm == Item("status", new_status(action)) @@ mock_vms[vm_id]
            IN  /\ mock_vms' = [mock_vms EXCEPT ![vm_id] = vm]
                /\ resp' = Response("vm_lifecycle", 200, vm)

\* ------------------------------------------- requests of a REST client
\* a client that is not the connector sends the request; the handler runs
POST_vms(vm) == create_vm(vm) /\ UNCHANGED <<regVars, connVars>>

GET_vms(search) == list_vms(search) /\ UNCHANGED <<regVars, connVars>>

GET_vm(vm_id) == get_vm(vm_id) /\ UNCHANGED <<regVars, connVars>>

PUT_vm(vm_id, update) == update_vm(vm_id, update) /\ UNCHANGED <<regVars, connVars>>

DELETE_vm(vm_id) == delete_vm(vm_id) /\ UNCHANGED <<regVars, connVars>>

POST_vm_clone(vm_id, clone) == clone_vm(vm_id, clone) /\ UNCHANGED <<regVars, connVars>>

POST_vm_action(vm_id, action) ==
    vm_lifecycle(vm_id, action) /\ UNCHANGED <<regVars, connVars>>

\* ------------------------------------------------- the connection manager
Hosts     == {"http://h1", "http://h2"}
Users     == {"u1", "u2"}
Passwords == {"p1", "p2"}
HypervisorTypes == {"mock_hypervisor", "vmware"}

Callers == {"t1", "t2"}
SessionIds == 1..MaxSessions

NoKey     == <<"", "">>
NoFrame   == [key |-> NoKey, session |-> 0]
NoOutcome == [kind |-> "none", key |-> NoKey, session |-> 0, stale |-> FALSE]

\* what a call hands to its caller: the session returned (`stale` records
\* whether its client was already closed at that moment) or the exception
Return(key, sid) ==
    [kind |-> "return", key |-> key, session |-> sid, stale |-> sessions[sid].closed]
Raise(exc, key) == [kind |-> exc, key |-> key, session |-> 0, stale |-> FALSE]

\* MockvisorSession.__init__; session_id is the object's identity
MockvisorSession(host_URL, user, password) ==
    [base_URL |-> host_URL, user |-> user, password |-> password,
     connects |-> 0, connected |-> FALSE, closed |-> FALSE]

\* get_session with a cache looked up by host_URL alone
get_session_by_host(t, hypervisor_type, host_URL, user, password) ==
    LET key  == <<host_URL, user>>
        hits == {k \in DOMAIN _active_sessions : k[1] = host_URL}
        sid  == Cardinality(DOMAIN sessions) + 1
    IN  /\ pc[t] = "idle"
        /\ IF hits # {}
           THEN /\ \E k \in hits :
                     ret' = [ret EXCEPT ![t] = Return(key, _active_sessions[k])]
                /\ UNCHANGED <<_active_sessions, sessions, pc, frame>>
           ELSE IF hypervisor_type = "mock_hypervisor"
           THEN /\ sid <= MaxSessions
                /\ sessions' = Item(sid, MockvisorSession(host_URL, user, password))
                                  @@ sessions
                /\ frame' = [frame EXCEPT ![t] = [key |-> key, session |-> sid]]
                /\ pc' = [pc EXCEPT ![t] = "connect"]
                /\ UNCHANGED <<_active_sessions, ret>>
           ELSE /\ ret' = [ret EXCEPT ![t] = Raise("ValueError", key)]
                /\ UNCHANGED <<_active_sessions, sessions, pc, frame>>
        /\ UNCHANGED <<storeVars, connVars>>

\* get_session that treats a cached session whose client is closed as a miss
get_session_evicting(t, hypervisor_type, host_URL, user, password) ==
    LET key == <<host_URL, user>>
        sid == Cardinality(DOMAIN sessions) + 1
    IN  /\ pc[t] = "idle"
        /\ IF key \in DOMAIN _active_sessions
              /\ ~sessions[_active_sessions[key]].closed
           THEN /\ ret' = [ret EXCEPT ![t] = Return(key, _active_sessions[key])]
                /\ UNCHANGED <<_active_sessions, sessions, pc, frame>>
           ELSE IF hypervisor_type = "mock_hypervisor"
           THEN /\ sid <= MaxSessions
                /\ sessions' = Item(sid, MockvisorSession(host_URL, user, password))
                                  @@ sessions
                /\ frame' = [frame EXCEPT ![t] = [key |-> key, session |-> sid]]
                /\ pc' = [pc EXCEPT ![t] = "connect"]
                /\ UNCHANGED <<_active_sessions, ret>>
           ELSE /\ ret' = [ret EXCEPT ![t] = Raise("ValueError", key)]
                /\ UNCHANGED <<_active_sessions, sessions, pc, frame>>
        /\ UNCHANGED <<storeVars, connVars>>

\* get_session that compares the password with the cached session's on a hit
get_session_checking_password(t, hypervisor_type, host_URL, user, password) ==
    LET key == <<host_URL, user>>
        sid == Cardinality(DOMAIN sessions) + 1
    IN  /\ pc[t] = "idle"
        /\ IF key \in DOMAIN _active_sessions
           THEN /\ ret' = [ret EXCEPT
                              ![t] = IF sessions[_active_sessions[key]].password = password
                                     THEN Return(key, _active_sessions[key])
                                     ELSE Raise("ConnectionError", key)]
                /\ UNCHANGED <<_active_sessions, sessions, pc, frame>>
           ELSE IF hypervisor_type = "mock_hypervisor"
           THEN /\ sid <= MaxSessions
                /\ sessions' = Item(sid, MockvisorSession(host_URL, user, password))
                                  @@ sessions
                /\ frame' = [frame EXCEPT ![t] = [key |-> key, session |-> sid]]
                /\ pc' = [pc EXCEPT ![t] = "connect"]
                /\ UNCHANGED <<_active_sessions, ret>>
           ELSE /\ ret' = [ret EXCEPT ![t] = Raise("ValueError", key)]
                /\ UNCHANGED <<_active_sessions, sessions, pc, frame>>
        /\ UNCHANGED <<storeVars, connVars>>

\* get_session, lines 41-52: the cache lookup and the construction of the
\* session.  A hit returns at once; a miss leaves the caller before
\* session.connect() with the new session in its locals.
get_session(t, hypervisor_type, host_URL, user, password) ==
    LET key == <<host_URL, user>>
        sid == Cardinality(DOMAIN sessions) + 1
    IN  /\ pc[t] = "idle"
        /\ IF key \in DOMAIN _active_sessions
           THEN /\ ret' = [ret EXCEPT ![t] = Return(key, _active_sessions[key])]
                /\ UNCHANGED <<_active_sessions, sessions, pc, frame>>
           ELSE IF hypervisor_type = "mock_hypervisor"
           THEN /\ sid <= MaxSessions
                /\ sessions' = Item(sid, MockvisorSession(host_URL, user, password))
                                  @@ sessions
                /\ frame' = [frame EXCEPT ![t] = [key |-> key, session |-> sid]]
                /\ pc' = [pc EXCEPT ![t] = "connect"]
                /\ UNCHANGED <<_active_sessions, ret>>
           ELSE /\ ret' = [ret EXCEPT ![t] = Raise("ValueError", key)]
                /\ UNCHANGED <<_active_sessions, sessions, pc, frame>>
        /\ UNCHANGED <<storeVars, connVars>>

\* what the GET /status of the probe meets: an HTTP answer with its status
\* code, or a failure of the transport (refused, timed out)
StatusAnswers == {200, 204, 404, 500, 0}

\* MockvisorSession.request for the probe: httpx raises RequestError when
\* the transport fails, raise_for_status raises HTTPStatusError when the
\* code is not a 2xx; "" when the response is returned
request_raises(answer) ==
    IF answer = 0 THEN "RequestError"
    ELSE IF answer < 200 \/ answer >= 300 THEN "HTTPStatusError"
    ELSE ""

\* MockvisorSession.is_alive: [raised, value]; only RequestError is caught
is_alive(answer) ==
    IF request_raises(answer) = "RequestError"
    THEN [raised |-> "", value |-> FALSE]
    ELSE IF request_raises(answer) # ""
    THEN [raised |-> request_raises(answer), value |-> FALSE]
    ELSE [raised |-> "", value |-> answer = 200]

\* MockvisorSession.connect: the exception it leaves with, "" if none
connect_raises(answer) ==
    IF is_alive(answer).raised # "" THEN is_alive(answer).raised
    ELSE IF ~is_alive(answer).value THEN "ConnectionError"
    ELSE ""

\* connect whose failure is swallowed: the session is cached all the same
connect_caching_failure(t) ==
    /\ pc[t] = "connect"
    /\ \E answer \in StatusAnswers :
         LET sid == frame[t].session
         IN  /\ sessions' = [sessions EXCEPT ![sid].connects = @ + 1,
                                             ![sid].connected = connect_raises(answer) = ""]
             /\ IF connect_raises(answer) = ""
                THEN /\ pc' = [pc EXCEPT ![t] = "insert"]
                     /\ UNCHANGED <<frame, ret, _active_sessions>>
                ELSE /\ pc' = [pc EXCEPT ![t] = "idle"]
                     /\ ret' = [ret EXCEPT ![t] = Raise(connect_raises(answer), frame[t].key)]
                     /\ frame' = [frame EXCEPT ![t] = NoFrame]
                     /\ _active_sessions' = Item(frame[t].key, sid) @@ _active_sessions
    /\ UNCHANGED <<storeVars, connVars>>

\* get_session, line 54: session.connect(), which probes is_alive (GET
\* /status) and raises ConnectionError when the probe says no, or leaves with
\* what the probe raised.  What answers at host_URL is the environment's choice.
connect(t) ==
    /\ pc[t] = "connect"
    /\ \E answer \in StatusAnswers :
         LET sid == frame[t].session
         IN  /\ sessions' = [sessions EXCEPT ![sid].connects = @ + 1,
                                             ![sid].connected = connect_raises(answer) = ""]
             /\ IF connect_raises(answer) = ""
                THEN /\ pc' = [pc EXCEPT ![t] = "insert"]
                     /\ UNCHANGED <<frame, ret>>
                ELSE /\ pc' = [pc EXCEPT ![t] = "idle"]
                     /\ ret' = [ret EXCEPT ![t] = Raise(connect_raises(answer), frame[t].key)]
                     /\ frame' = [frame EXCEPT ![t] = NoFrame]
    /\ UNCHANGED <<_active_sessions, storeVars, connVars>>

\* get_session, lines 55-56: _active_sessions[key] = session; return session
insert(t) ==
    /\ pc[t] = "insert"
    /\ _active_sessions' = Item(frame[t].key, frame[t].session) @@ _active_sessions
    /\ ret' = [ret EXCEPT ![t] = Return(frame[t].key, frame[t].session)]
    /\ pc' = [pc EXCEPT ![t] = "idle"]
    /\ frame' = [frame EXCEPT ![t] = NoFrame]
    /\ UNCHANGED <<sessions, storeVars, connVars>>

\* the sessions a caller of get_session holds a reference to
Held == ({_active_sessions[k] : k \in DOMAIN _active_sessions}
            \cup {ret[t].session : t \in Callers}) \ {0}

\* MockvisorSession.disconnect: closes the HTTP client
disconnect(sid) ==
    /\ sid \in Held
    /\ ~sessions[sid].closed
    /\ sessions' = [sessions EXCEPT ![sid].closed = TRUE]
    /\ UNCHANGED <<_active_sessions, pc, frame, ret, storeVars, connVars>>

\* a call that starts while no other call is in progress
get_session_alone(t, hypervisor_type, host_URL, user, password) ==
    /\ \A u \in Callers : pc[u] = "idle"
    /\ get_session(t, hypervisor_type, host_URL, user, password)

\* ------------------------------------------------------- the connector
\* Python's None as the value of an attribute
None == "None"

\* the configurations handed to reconfigure and update_config
ConfigIds == {"VM1", "VM2", None}

ConfigNames == {Str(<<"a", "b">>), Str(<<>>)}

VMConfigs ==
    {i @@ n @@ r : i \in Field("id", ConfigIds), n \in Field("name", ConfigNames),
                   r \in {EmptyDict} \cup Sizes}

\* a connector call that has ended: the method and the exception it raised
Call(method, exc) == [method |-> method, raised |-> exc]

\* MockVMConnector.__init__: the local copy is the configuration it is given
MockVMConnector(config) == <<config>>

\* MockVMConnector.id
self_id == _config[1]["id"]

\* a request whose method no route of the daemon accepts
method_not_allowed ==
    /\ resp' = Response("", 405, Item("detail", "Method Not Allowed"))
    /\ UNCHANGED mock_vms

\* MockvisorSession.request: raise_for_status() on the response received
raise_for_status(method, returned) ==
    IF resp'.code >= 400
    THEN call' = Call(method, "HTTPStatusError") /\ UNCHANGED _config
    ELSE call' = Call(method, "") /\ _config' = returned

\* MockvisorSession.request: over a transport that is up the daemon handles
\* the request and its answer arrives; otherwise httpx raises a RequestError,
\* with the request never handled (down) or handled and the answer lost (lossy)
request(handled, method, returned) ==
    CASE net = "up"    -> handled /\ raise_for_status(method, returned)
      [] net = "lossy" -> /\ handled
                          /\ call' = Call(method, "RequestError")
                          /\ UNCHANGED _config
      [] net = "down"  -> /\ call' = Call(method, "RequestError")
                          /\ UNCHANGED <<storeVars, _config>>

\* the transport comes up, goes down or starts to lose answers
net_changes(to) ==
    /\ to # net
    /\ net' = to
    /\ UNCHANGED <<storeVars, regVars, _config, call, handling, daemon, launcher>>

\* an exception raised before any request is sent
raise(method, exc) == call' = Call(method, exc) /\ UNCHANGED <<storeVars, _config>>

\* MockHypervisorConnector.create_vm
MockHypervisorConnector_create_vm(config) ==
    /\ request(create_vm(config), "create_vm", MockVMConnector(resp'.body))
    /\ UNCHANGED <<regVars, net, handling, daemon, launcher>>

\* MockHypervisorConnector.get_vm
MockHypervisorConnector_get_vm(vm_id) ==
    /\ request(get_vm(vm_id), "get_vm", MockVMConnector(resp'.body))
    /\ UNCHANGED <<regVars, net, handling, daemon, launcher>>

\* MockVMConnector.delete
delete ==
    /\ _config # <<>>
    /\ request(delete_vm(self_id), "delete", _config)
    /\ UNCHANGED <<regVars, net, handling, daemon, launcher>>

\* rename that sends the status along with the name
rename_resets_status(new_name) ==
    /\ _config # <<>>
    /\ request(update_vm(self_id, Item("name", new_name) @@ Item("status", "stopped")),
               "rename", <<Item("name", new_name) @@ _config[1]>>)
    /\ UNCHANGED <<regVars, net, handling, daemon, launcher>>

\* MockVMConnector.rename
rename(new_name) ==
    /\ _config # <<>>
    /\ request(update_vm(self_id, Item("name", new_name)), "rename",
               <<Item("name", new_name) @@ _config[1]>>)
    /\ UNCHANGED <<regVars, net, handling, daemon, launcher>>

\* reconfigure without the comparison of the identifiers
reconfigure_unchecked(config) ==
    /\ _config # <<>>
    /\ IF "id" \notin DOMAIN config
       THEN raise("reconfigure", "AttributeError")
       ELSE request(update_vm(self_id, config), "reconfigure", <<config>>)
    /\ UNCHANGED <<regVars, net, handling, daemon, launcher>>

\* MockVMConnector.reconfigure
reconfigure(config) ==
    /\ _config # <<>>
    /\ IF "id" \notin DOMAIN config
       THEN raise("reconfigure", "AttributeError")
       ELSE IF config["id"] # self_id
       THEN raise("reconfigure", "ValueError")
       ELSE request(update_vm(self_id, config), "reconfigure", <<config>>)
    /\ UNCHANGED <<regVars, net, handling, daemon, launcher>>

\* MockVMConnector.update_config
update_config(config) ==
    /\ _config # <<>>
    /\ IF "id" \notin DOMAIN config
       THEN raise("update_config", "AttributeError")
       ELSE IF config["id"] # None /\ config["id"] # self_id
       THEN raise("update_config", "ValueError")
       ELSE request(method_not_allowed, "update_config",
                    <<DictUpdate(_config[1], config)>>)
    /\ UNCHANGED <<regVars, net, handling, daemon, launcher>>

\* what _lifecycle_action makes of the answer: the default of .get(),
\* self._config.status, is read before the answer's status is taken
lifecycle_answer(action) ==
    IF "status" \notin DOMAIN _config[1]
    THEN call' = Call(action, "AttributeError") /\ UNCHANGED _config
    ELSE /\ call' = Call(action, "")
         /\ _config' = <<Item("status", resp'.body["status"]) @@ _config[1]>>

\* _lifecycle_action that sets the local status to the one it asks for
\* before the request is sent
lifecycle_optimistic(action) ==
    /\ _config # <<>>
    /\ IF net = "down" THEN UNCHANGED storeVars ELSE vm_lifecycle(self_id, action)
    /\ _config' = <<Item("status", new_status(action)) @@ _config[1]>>
    /\ call' = Call(action, IF net # "up" THEN "RequestError"
                            ELSE IF resp'.code >= 400 THEN "HTTPStatusError" ELSE "")
    /\ UNCHANGED <<regVars, net, handling, daemon, launcher>>

\* MockVMConnector._lifecycle_action, behind start, stop, pause and resume
_lifecycle_action(action) ==
    /\ _config # <<>>
    /\ CASE net = "up" ->
              /\ vm_lifecycle(self_id, action)
              /\ IF resp'.code >= 400
                 THEN call' = Call(action, "HTTPStatusError") /\ UNCHANGED _config
                 ELSE lifecycle_answer(action)
         [] net = "lossy" ->
              /\ vm_lifecycle(self_id, action)
              /\ call' = Call(action, "RequestError")
              /\ UNCHANGED _config
         [] net = "down" ->
              /\ call' = Call(action, "RequestError")
              /\ UNCHANGED <<storeVars, _config>>
    /\ UNCHANGED <<regVars, net, handling, daemon, launcher>>

\* a client with no VM in the store creates one
create_first_vm(config) ==
    /\ mock_vms = EmptyDict
    /\ MockHypervisorConnector_create_vm(config)

\* ------------------------------ vm_lifecycle on the daemon's worker threads
\* the threads of the pool that runs the handlers
Workers == {"w1", "w2"}

\* the body of the one VM these requests are about
OneConfig == {Item("name", Str(<<"a">>))}

Idle == [pc |-> "idle", vm_id |-> "", action |-> "", code |-> 0, body |-> EmptyDict]

\* the worker has answered
Answered(w, code, body) ==
    [handling[w] EXCEPT !.pc = "idle", !.code = code, !.body = body]

\* vm_lifecycle, lines 175-185: look the VM up and check the action
lifecycle_lookup(w, vm_id, action) ==
    /\ handling[w].pc = "idle"
    /\ IF vm_id \notin DOMAIN mock_vms
       THEN /\ handling' = [handling EXCEPT
                               ![w] = [pc |-> "idle", vm_id |-> vm_id, action |-> action,
                                       code |-> 404, body |-> Error("VM not found")]]
            /\ resp' = Response("vm_lifecycle", 404, Error("VM not found"))
       ELSE IF action \notin Actions
       THEN /\ handling' = [handling EXCEPT
                               ![w] = [pc |-> "idle", vm_id |-> vm_id, action |-> action,
                                       code |-> 400, body |-> Error("Invalid action")]]
            /\ resp' = Response("vm_lifecycle", 400, Error("Invalid action"))
       ELSE /\ handling' = [handling EXCEPT
                               ![w] = [pc |-> "assign", vm_id |-> vm_id, action |-> action,
                                       code |-> 0, body |-> EmptyDict]]
            /\ UNCHANGED resp
    /\ UNCHANGED <<mock_vms, regVars, _config, call, net, daemon, launcher>>

\* vm_lifecycle, line 186: vm["status"] = new_status
lifecycle_assign(w) ==
    /\ handling[w].pc = "assign"
    /\ mock_vms' = [mock_vms EXCEPT
                       ![handling[w].vm_id] =
                           Item("status", new_status(handling[w].action)) @@ @]
    /\ handling' = [handling EXCEPT ![w].pc = "respond"]
    /\ UNCHANGED <<resp, regVars, _config, call, net, daemon, launcher>>

\* vm_lifecycle, line 188: the dict is returned and then encoded as the answer
lifecycle_respond(w) ==
    /\ handling[w].pc = "respond"
    /\ handling' = [handling EXCEPT ![w] = Answered(w, 200, mock_vms[handling[w].vm_id])]
    /\ resp' = Response("vm_lifecycle", 200, mock_vms[handling[w].vm_id])
    /\ UNCHANGED <<mock_vms, regVars, _config, call, net, daemon, launcher>>

\* the VM is created while no lifecycle request is being handled
create_vm_quiet(vm) ==
    /\ \A w \in Workers : handling[w].pc = "idle"
    /\ create_vm(vm)
    /\ UNCHANGED <<regVars, connVars>>

\* the bodies of create requests without identifier: two names, and no name
TwoConfigs == {Item("name", n) : n \in ValidNames \cup {Str(<<>>)}}

\* create_vm, lines 80-87: the body is checked, generate_vm_id reads the keys
\* of the store, and the body is given its id and status
create_generate(w, vm) ==
    /\ handling[w].pc = "idle"
    /\ Cardinality(DOMAIN mock_vms) < MaxVMs
    /\ IF ~name_ok(vm)
       THEN /\ handling' = [handling EXCEPT
                               ![w] = [pc |-> "idle", vm_id |-> "", action |-> "create",
                                       code |-> 422,
                                       body |-> Error("Missing or invalid 'name' field")]]
            /\ resp' = Response("create_vm", 422, Error("Missing or invalid 'name' field"))
       ELSE LET vm_id == generate_vm_id(Get(vm, "id"))
            IN  /\ handling' = [handling EXCEPT
                                   ![w] = [pc |-> "store", vm_id |-> vm_id,
                                           action |-> "create", code |-> 0,
                                           body |-> Item("status", "stopped")
                                                       @@ Item("id", vm_id) @@ vm]]
                /\ UNCHANGED resp
    /\ UNCHANGED <<mock_vms, regVars, _config, call, net, daemon, launcher>>

\* create_vm, lines 88-90: mock_vms[vm_id] = vm, and the answer
create_store(w) ==
    /\ handling[w].pc = "store"
    /\ mock_vms' = Item(handling[w].vm_id, handling[w].body) @@ mock_vms
    /\ handling' = [handling EXCEPT ![w] = Answered(w, 201, handling[w].body)]
    /\ resp' = Response("create_vm", 201, handling[w].body)
    /\ UNCHANGED <<regVars, _config, call, net, daemon, launcher>>

\* ------------------------------------------------------ the daemon process
\* the process after run() has started the server thread and before the main
\* thread has returned from shutdown_event.wait()
Started ==
    [shutdown_event |-> FALSE, main |-> "wait", server |-> "serving",
     state |-> "", msg |-> "", pid |-> 1, port |-> 5556]

\* the server thread answers requests
serving == daemon.main # "exited" /\ daemon.server = "serving"

\* a second request toggles the event
_trigger_shutdown_toggle(is_set) == ~is_set

\* _trigger_shutdown: the value of the event afterwards
_trigger_shutdown(is_set) == IF ~is_set THEN TRUE ELSE is_set

\* POST /shutdown
shutdown ==
    /\ serving
    /\ daemon' = [daemon EXCEPT
                     !.shutdown_event = _trigger_shutdown(daemon.shutdown_event)]
    /\ resp' = Response("shutdown", 200, Item("message", "Server shutting down"))
    /\ UNCHANGED <<mock_vms, regVars, _config, call, net, handling, launcher>>

\* SIGTERM delivered to the process
_sigterm_handler ==
    /\ daemon.main # "exited"
    /\ daemon' = [daemon EXCEPT
                     !.shutdown_event = _trigger_shutdown(daemon.shutdown_event)]
    /\ UNCHANGED <<storeVars, regVars, _config, call, net, handling, launcher>>

\* GET /status
status ==
    /\ serving
    /\ LET state == IF daemon.shutdown_event THEN "shutting_down" ELSE "ok"
       IN  /\ daemon' = [daemon EXCEPT !.state = state]
           /\ resp' = Response("status", 200,
                               Item("status", state)
                                   @@ Item("vms", Cardinality(DOMAIN mock_vms)))
    /\ UNCHANGED <<mock_vms, regVars, _config, call, net, handling, launcher>>

\* a request for the VM store reaches the server thread
served(handled) == serving /\ handled

\* run: shutdown_event.wait() returns
wait_returns ==
    /\ daemon.main = "wait"
    /\ daemon.shutdown_event
    /\ daemon' = [daemon EXCEPT !.main = "woken"]
    /\ UNCHANGED <<storeVars, regVars, _config, call, net, handling, launcher>>

\* run: the wait is left through KeyboardInterrupt, the event not set
KeyboardInterrupt ==
    /\ daemon.main = "wait"
    /\ daemon' = [daemon EXCEPT !.main = "woken"]
    /\ UNCHANGED <<storeVars, regVars, _config, call, net, handling, launcher>>

\* run: server.should_exit = True, then t.join() waits
set_should_exit ==
    /\ daemon.main = "woken"
    /\ daemon' = [daemon EXCEPT !.main = "join"]
    /\ UNCHANGED <<storeVars, regVars, _config, call, net, handling, launcher>>

\* the server thread sees should_exit and returns from server.run()
run_server_returns ==
    /\ daemon.main = "join"
    /\ daemon.server = "serving"
    /\ daemon' = [daemon EXCEPT !.server = "stopped"]
    /\ UNCHANGED <<storeVars, regVars, _config, call, net, handling, launcher>>

\* run: t.join() returns, os._exit(0)
os_exit ==
    /\ daemon.main = "join"
    /\ daemon.server = "stopped"
    /\ daemon' = [daemon EXCEPT !.main = "exited"]
    /\ UNCHANGED <<storeVars, regVars, _config, call, net, handling, launcher>>

\* launcher.py status: _find_daemon_pid scans the process table
_find_daemon_pid == IF daemon.main = "exited" THEN None ELSE "pid"

launcher_status ==
    /\ daemon' = [daemon EXCEPT
                     !.msg = IF _find_daemon_pid = None
                             THEN "Daemon not running."
                             ELSE "Daemon running with PID"]
    /\ UNCHANGED <<storeVars, regVars, _config, call, net, handling, launcher>>

\* ------------------------------------------------------------ the launcher
\* the daemon processes one run of the launcher's commands may start
MaxDaemons == 3

\* the lines _start_daemon reads at most: range(10)
MaxLines == 10

\* the lines the pipe holds unread
MaxPipe == 1

\* --port of `start`: absent, or one of the ports of test_launcher.py
PortOptions == {<<>>, <<5556>>, <<5557>>}

\* the ports the system hands out for a bind to port 0
AutoPorts == {49152, 49153}

\* a line on the daemon's standard output
Line(form, port) == [form |-> form, port |-> port]

\* the dictionary a command prints, and its exit code
Result(cmd, returncode, msg, pid, port, exit_code) ==
    [cmd |-> cmd, returncode |-> returncode, msg |-> msg, pid |-> pid,
     port |-> port, exit_code |-> exit_code]

NoCommand ==
    [pc |-> "idle", port |-> <<>>, count |-> 0, selected_port |-> <<>>,
     stdout |-> <<>>, result |-> Result("", 0, "", <<>>, <<>>, 0)]

\* _get_listening_port_of_pid: the port of the first listening socket, if any
_get_listening_port_of_pid ==
    IF daemon.main # "exited" /\ daemon.server = "serving"
    THEN <<daemon.port>> ELSE <<>>

\* daemon.py run, lines 198-216, in the new process: the port is chosen and
\* announced as a JSON event on standard output, or the process exits with 98
run(port, p, in_use) ==
    IF port = 0
    THEN /\ daemon' = [Started EXCEPT !.pid = daemon.pid + 1, !.port = p,
                                      !.msg = daemon.msg]
         /\ launcher' = [launcher EXCEPT
                            !.pc = "reading", !.port = <<port>>, !.count = 0,
                            !.selected_port = <<>>,
                            !.stdout = <<Line("port_selected", p)>>]
    ELSE IF in_use
    THEN /\ daemon' = [Started EXCEPT !.pid = daemon.pid + 1, !.port = port,
                                      !.msg = daemon.msg, !.main = "exited",
                                      !.server = "stopped"]
         /\ launcher' = [launcher EXCEPT
                            !.pc = "reading", !.port = <<port>>, !.count = 0,
                            !.selected_port = <<>>, !.stdout = <<>>]
    ELSE /\ daemon' = [Started EXCEPT !.pid = daemon.pid + 1, !.port = port,
                                      !.msg = daemon.msg]
         /\ launcher' = [launcher EXCEPT
                            !.pc = "reading", !.port = <<port>>, !.count = 0,
                            !.selected_port = <<>>,
                            !.stdout = <<Line("port_used", port)>>]

\* launcher.py start, lines 70-80, and _start_daemon, lines 39-44
start(port) ==
    /\ launcher.pc = "idle"
    /\ IF _find_daemon_pid # None
       THEN /\ launcher' = [launcher EXCEPT
                               !.result = Result("start", 1,
                                   "A mock_hypervisor daemon is already running",
                                   <<daemon.pid>>, _get_listening_port_of_pid, 1)]
            /\ UNCHANGED <<daemon, mock_vms>>
       ELSE /\ daemon.pid < MaxDaemons
            /\ \E p \in AutoPorts, in_use \in BOOLEAN :
                   /\ (port = <<>>) => ~in_use
                   /\ run(IF port = <<>> THEN 0 ELSE port[1], p, in_use)
            /\ mock_vms' = EmptyDict
    /\ UNCHANGED <<resp, regVars, _config, call, net, handling>>

\* the line carries the text _start_daemon looks for
marker_in(line) == line.form \in {"[MOCKDAEMON] Selected port:", "[MOCKDAEMON] Using port:"}

\* _start_daemon, lines 45-54: one turn of the loop
readline ==
    /\ launcher.pc = "reading"
    /\ IF launcher.stdout # <<>>
       THEN LET line == Head(launcher.stdout)
            IN  launcher' = [launcher EXCEPT
                    !.stdout = Tail(@),
                    !.count = @ + 1,
                    !.selected_port = IF marker_in(line) THEN <<line.port>> ELSE @,
                    !.pc = IF marker_in(line) \/ launcher.count + 1 = MaxLines
                           THEN "sleep" ELSE "reading"]
       ELSE /\ daemon.main = "exited"
            /\ launcher' = [launcher EXCEPT !.pc = "sleep"]
    /\ UNCHANGED <<storeVars, regVars, _config, call, net, handling, daemon>>

\* the server writes one access line per request it answers
access_log ==
    /\ serving
    /\ launcher.pc = "reading"
    /\ Len(launcher.stdout) < MaxPipe
    /\ launcher' = [launcher EXCEPT !.stdout = Append(@, Line("access", 0))]
    /\ UNCHANGED <<storeVars, regVars, _config, call, net, handling, daemon>>

\* selected_port or port
selected_port_or_port ==
    IF launcher.selected_port # <<>> /\ launcher.selected_port[1] # 0
    THEN launcher.selected_port ELSE launcher.port

\* _start_daemon, lines 55-59, and start, lines 81-87
start_returns ==
    /\ launcher.pc = "sleep"
    /\ launcher' = [launcher EXCEPT
           !.pc = "idle",
           !.result = IF daemon.main = "exited"
                      THEN Result("start", 1, "Error: ", <<>>, <<>>, 1)
                      ELSE Result("start", 0, "Started daemon", <<daemon.pid>>,
                                  selected_port_or_port, 0)]
    /\ UNCHANGED <<storeVars, regVars, _config, call, net, handling, daemon>>

\* launcher.py stop, lines 92-103: SIGTERM to the process found
stop ==
    /\ launcher.pc = "idle"
    /\ IF _find_daemon_pid = None
       THEN /\ launcher' = [launcher EXCEPT
                               !.result = Result("stop", 1, "Daemon not running.",
                                                 <<>>, <<>>, 1)]
            /\ UNCHANGED daemon
       ELSE /\ daemon' = [daemon EXCEPT
                             !.shutdown_event = _trigger_shutdown(daemon.shutdown_event)]
            /\ launcher' = [launcher EXCEPT !.pc = "stop_sleep"]
    /\ UNCHANGED <<storeVars, regVars, _config, call, net, handling>>

\* stop, lines 104-119: after the sleep the process is gone, or it is not
stop_returns ==
    /\ launcher.pc = "stop_sleep"
    /\ launcher' = [launcher EXCEPT
           !.pc = "idle",
           !.result = IF daemon.main = "exited"
                      THEN Result("stop", 0, "Stopped daemon", <<daemon.pid>>, <<>>, 0)
                      ELSE Result("stop", 1, "Failed to stop daemon",
                                  <<daemon.pid>>, <<>>, 1)]
    /\ UNCHANGED <<storeVars, regVars, _config, call, net, handling, daemon>>

\* ---------------------------------------------------------- specifications

Init ==
    /\ mock_vms = EmptyDict
    /\ resp = Response("", 0, EmptyDict)
    /\ _active_sessions = EmptyDict
    /\ sessions = EmptyDict
    /\ pc = [t \in Callers |-> "idle"]
    /\ frame = [t \in Callers |-> NoFrame]
    /\ ret = [t \in Callers |-> NoOutcome]
    /\ _config = <<>>
    /\ call = Call("", "")
    /\ net = "up"
    /\ handling = [w \in Workers |-> Idle]
    /\ daemon = Started
    /\ launcher = NoCommand

NextStore ==
    \/ \E vm \in Payloads : POST_vms(vm)
    \/ \E vm_id \in PathIds : GET_vm(vm_id)
    \/ \E vm_id \in PathIds, update \in Updates : PUT_vm(vm_id, update)
    \/ \E vm_id \in PathIds : DELETE_vm(vm_id)
    \/ \E vm_id \in PathIds, clone \in Payloads : POST_vm_clone(vm_id, clone)
    \/ \E vm_id \in PathIds, action \in PathActions : POST_vm_action(vm_id, action)

SpecStore == Init /\ [][NextStore]_vars

\* the same handlers, called with bodies that carry cpu and memory
NextCfg ==
    \/ \E vm \in Configs : POST_vms(vm)
    \/ \E search \in Searches : GET_vms(search)
    \/ \E vm_id \in PathIds : GET_vm(vm_id)
    \/ \E vm_id \in PathIds, update \in Configs : PUT_vm(vm_id, update)
    \/ \E vm_id \in PathIds : DELETE_vm(vm_id)
    \/ \E vm_id \in PathIds, clone \in Configs : POST_vm_clone(vm_id, clone)
    \/ \E vm_id \in PathIds, action \in PathActions : POST_vm_action(vm_id, action)

SpecCfg == Init /\ [][NextCfg]_vars

\* one client that works through the connector
NextConn ==
    \/ \E config \in Configs : MockHypervisorConnector_create_vm(config)
    \/ \E vm_id \in PathIds : MockHypervisorConnector_get_vm(vm_id)
    \/ \E new_name \in CfgNames : rename(new_name)
    \/ \E config \in VMConfigs : reconfigure(config)
    \/ \E config \in VMConfigs : update_config(config)

SpecConn == Init /\ [][NextConn]_vars

\* one client with one VM, over a transport that can fail
NextVM ==
    \/ \E to \in {"up", "down", "lossy"} : net_changes(to)
    \/ \E config \in Configs \cup EdgeConfigs : create_first_vm(config)
    \/ \E new_name \in ConfigNames : rename(new_name)
    \/ \E config \in VMConfigs : reconfigure(config)
    \/ \E config \in VMConfigs : update_config(config)
    \/ \E action \in Actions : _lifecycle_action(action)
    \/ delete

SpecVM == Init /\ [][NextVM]_vars

\* lifecycle requests handled by two worker threads at once
NextRace ==
    \/ \E vm \in OneConfig : create_vm_quiet(vm)
    \/ \E w \in Workers, vm_id \in PathIds, action \in PathActions :
          lifecycle_lookup(w, vm_id, action)
    \/ \E w \in Workers : lifecycle_assign(w)
    \/ \E w \in Workers : lifecycle_respond(w)

SpecRace == Init /\ [][NextRace]_vars

\* get_session called from several threads at once
Next ==
    \/ \E t \in Callers, ty \in HypervisorTypes, h \in Hosts, u \in Users,
          p \in Passwords : get_session(t, ty, h, u, p)
    \/ \E t \in Callers : connect(t)
    \/ \E t \in Callers : insert(t)
    \/ \E sid \in SessionIds : disconnect(sid)

Spec == Init /\ [][Next]_vars

\* get_session called again only after the previous call has returned
NextSeq ==
    \/ \E t \in Callers, ty \in HypervisorTypes, h \in Hosts, u \in Users,
          p \in Passwords : get_session_alone(t, ty, h, u, p)
    \/ \E t \in Callers : connect(t)
    \/ \E t \in Callers : insert(t)
    \/ \E sid \in SessionIds : disconnect(sid)

SpecSeq == Init /\ [][NextSeq]_vars

\* the daemon process from start to exit: the store, /status, /shutdown,
\* SIGTERM, the main thread of run() and the launcher's status command
NextDaemon ==
    \/ \E vm \in OneConfig : served(POST_vms(vm))
    \/ \E vm_id \in PathIds : served(DELETE_vm(vm_id))
    \/ shutdown
    \/ _sigterm_handler
    \/ status
    \/ wait_returns
    \/ KeyboardInterrupt
    \/ set_should_exit
    \/ run_server_returns
    \/ os_exit
    \/ launcher_status

\* the main thread and the server thread are scheduled
SpecDaemon ==
    /\ Init
    /\ [][NextDaemon]_vars
    /\ WF_vars(wait_returns)
    /\ WF_vars(set_should_exit)
    /\ WF_vars(run_server_returns)
    /\ WF_vars(os_exit)

\* the launcher's start, stop and status commands and the daemon they manage
NextLauncher ==
    \/ \E port \in PortOptions : start(port)
    \/ readline
    \/ access_log
    \/ start_returns
    \/ stop
    \/ stop_returns
    \/ launcher_status
    \/ wait_returns
    \/ set_should_exit
    \/ run_server_returns
    \/ os_exit

SpecLauncher == Init /\ [][NextLauncher]_vars

\* create_vm on two worker threads of the daemon
NextCreate ==
    \/ \E w \in Workers, vm \in TwoConfigs : create_generate(w, vm)
    \/ \E w \in Workers : create_store(w)

SpecCreate == Init /\ [][NextCreate]_vars

\* one caller that calls get_session again and again
NextOne ==
    \/ \E ty \in HypervisorTypes, h \in Hosts, u \in Users, p \in Passwords :
          get_session("t1", ty, h, u, p)
    \/ connect("t1")
    \/ insert("t1")
    \/ \E sid \in SessionIds : disconnect(sid)

SpecOne == Init /\ [][NextOne]_vars

\* ------------------------------------------------------------------ claims

\* the transition table of the lifecycle state machine
AllowedFrom(action) ==
    CASE action = "start"  -> {"stopped", "paused"}
      [] action = "stop"   -> {"running", "paused"}
      [] action = "pause"  -> {"running"}
      [] action = "resume" -> {"paused"}

ResultOf(action) ==
    CASE action = "start"  -> "running"
      [] action = "stop"   -> "stopped"
      [] action = "pause"  -> "paused"
      [] action = "resume" -> "running"

\* C1: a lifecycle action that the transition table does not allow from the
\* VM's current status fails with an error and leaves the status unchanged.
C1_IllegalTransitionRejected ==
    [][\A vm_id \in PathIds, action \in Actions :
          ( /\ vm_lifecycle(vm_id, action)
            /\ vm_id \in DOMAIN mock_vms
            /\ mock_vms[vm_id]["status"] \notin AllowedFrom(action) )
          => /\ resp'.code >= 400
             /\ mock_vms'[vm_id]["status"] = mock_vms[vm_id]["status"]]_vars

\* C2: a lifecycle action that succeeds leaves the VM in the status the
\* transition table gives for the action (start -> running, stop -> stopped,
\* pause -> paused, resume -> running) and returns that record.
C2_TransitionResult ==
    [][(resp'.op = "vm_lifecycle" /\ resp'.code = 200) =>
          \A vm_id \in PathIds, action \in PathActions :
             vm_lifecycle(vm_id, action)
             => /\ action \in Actions
                /\ mock_vms'[vm_id]["status"] = ResultOf(action)
                /\ resp'.body["status"] = ResultOf(action)]_vars

\* a record is paused, which only a pause action can have made it, and the
\* last response is that record
C2_Witness ==
    \E vm_id \in DOMAIN mock_vms :
        /\ mock_vms[vm_id]["status"] = "paused"
        /\ resp = Response("vm_lifecycle", 200, mock_vms[vm_id])

Returned(t) == ret[t].kind = "return"

\* C3: in a sequential series of get_session calls, two calls return the
\* same session exactly when their (host_URL, user) keys are equal, and the
\* connect step of a returned session has run exactly once.
C3_SessionReuse ==
    \A t1, t2 \in Callers :
        (Returned(t1) /\ Returned(t2))
        => /\ (ret[t1].key = ret[t2].key) <=> (ret[t1].session = ret[t2].session)
           /\ sessions[ret[t1].session].connects = 1

\* two callers hold the same session for the same key, obtained by one connect
C3_Witness ==
    /\ Returned("t1") /\ Returned("t2")
    /\ ret["t1"].key = ret["t2"].key
    /\ ret["t1"].session = ret["t2"].session
    /\ sessions[ret["t1"].session].connects = 1
    /\ \A t \in Callers : pc[t] = "idle"

SessionKey(sid) == <<sessions[sid].base_URL, sessions[sid].user>>

\* C4: under every interleaving of concurrent callers at most one session
\* is created and connected per (host_URL, user) key, and callers that
\* asked for the same key received the same session.
C4_AtMostOneSessionPerKey ==
    /\ \A s1, s2 \in DOMAIN sessions :
          ( /\ sessions[s1].connected /\ sessions[s2].connected
            /\ SessionKey(s1) = SessionKey(s2) ) => s1 = s2
    /\ \A t1, t2 \in Callers :
          (Returned(t1) /\ Returned(t2) /\ ret[t1].key = ret[t2].key)
          => ret[t1].session = ret[t2].session

Errors == {"ValueError", "ConnectionError", "HTTPStatusError"}

\* the step in which the call of caller t raises
Fails(t) ==
    /\ ret'[t].kind \in Errors
    /\ (pc[t] = "connect" /\ pc'[t] = "idle") \/ ret'[t] # ret[t]

\* the step in which caller t, past a cache miss, constructs a session
Creates(t) == pc[t] = "idle" /\ pc'[t] = "connect"

Calls(t) == pc[t] = "idle" /\ (pc'[t] # "idle" \/ ret'[t] # ret[t])
CalledKey(t) == IF pc'[t] = "idle" THEN ret'[t].key ELSE frame'[t].key

NoExplicitId(d) == "id" \notin DOMAIN d

\* C7: a create or clone without an explicit identifier returns an
\* identifier that no record already in the store holds, and afterwards no
\* two records of the store share an identifier.
C7_FreshIdentifier ==
    [][\A d \in Payloads :
          ( /\ NoExplicitId(d)
            /\ resp'.code = 201
            /\ create_vm(d) \/ \E vm_id \in PathIds : clone_vm(vm_id, d) )
          => /\ \A k \in DOMAIN mock_vms : mock_vms[k]["id"] # resp'.body["id"]
             /\ \A k1, k2 \in DOMAIN mock_vms' :
                   k1 # k2 => mock_vms'[k1]["id"] # mock_vms'[k2]["id"]]_vars

\* C8: every record's `id` field equals the key under which it is stored.
C8_IdEqualsKey ==
    \A k \in DOMAIN mock_vms : mock_vms[k]["id"] = k

\* a step of create, update (PUT) or clone
PayloadStep ==
    \/ \E d \in Payloads : create_vm(d)
    \/ \E vm_id \in PathIds, d \in Updates : update_vm(vm_id, d)
    \/ \E vm_id \in PathIds, d \in Payloads : clone_vm(vm_id, d)

\* C9: no create, update or clone changes the status of a record of the
\* store, whatever its payload; the records they add are `stopped`.
C9_PayloadNeverSetsStatus ==
    [][PayloadStep =>
          \A k \in DOMAIN mock_vms' :
             IF k \in DOMAIN mock_vms
             THEN mock_vms'[k]["status"] = mock_vms[k]["status"]
             ELSE mock_vms'[k]["status"] = "stopped"]_vars

\* the payload has no name, a name that is not a string, or a name made of
\* whitespace only
BadName(d) ==
    \/ "name" \notin DOMAIN d
    \/ d["name"].t # "str"
    \/ \A i \in 1..Len(d["name"].s) : d["name"].s[i] = " "

NameTaken(d) == \E k \in DOMAIN mock_vms : mock_vms[k]["name"] = d["name"]

\* C12: a create whose name another record already has is answered 409 and
\* leaves the store unchanged.
C12_DuplicateNameRejected ==
    [][resp'.op = "create_vm" =>
          \A d \in Payloads :
             (~BadName(d) /\ NameTaken(d) /\ create_vm(d))
             => /\ resp'.code = 409
                /\ mock_vms' = mock_vms]_vars

\* str.startswith
startswith(s, prefix) ==
    Len(prefix) <= Len(s) /\ SubSeq(s, 1, Len(prefix)) = prefix

\* C13: a create whose name another record already has succeeds and the
\* new record gets a name that starts with the requested one and differs
\* from the names already in the store.
C13_DuplicateNameMadeUnique ==
    [][resp'.op = "create_vm" =>
          \A d \in Payloads :
             (~BadName(d) /\ NoExplicitId(d) /\ NameTaken(d) /\ create_vm(d))
             => /\ resp'.code = 201
                /\ startswith(resp'.body["name"].s, d["name"].s)
                /\ \A k \in DOMAIN mock_vms :
                      mock_vms[k]["name"] # resp'.body["name"]]_vars

\* the fields a clone takes from its source
Inherited(r) == DOMAIN r \ {"id", "name", "status"}

\* C14: a clone that overrides only the name returns and stores a record
\* with the source's cpu and memory, the new name, status `stopped` whatever
\* the source's status, and an identifier other than the source's; the
\* source is left as it was.
C14_CloneInherits ==
    [][(resp'.op = "clone_vm" /\ resp'.code = 201) =>
          \A vm_id \in PathIds, d \in Configs :
             (DOMAIN d = {"name"} /\ clone_vm(vm_id, d)) =>
                LET src == mock_vms[vm_id]
                    r   == resp'.body
                IN  /\ r["name"] = d["name"]
                    /\ r["status"] = "stopped"
                    /\ r["id"] # vm_id /\ r["id"] # src["id"]
                    /\ r["id"] \notin DOMAIN mock_vms
                    /\ Inherited(r) = Inherited(src)
                    /\ \A k \in Inherited(src) : r[k] = src[k]
                    /\ mock_vms'[r["id"]] = r
                    /\ mock_vms'[vm_id] = src]_vars

\* a running VM with 4 cpus was cloned: the copy is stopped, has 4 cpus
\* and 4096 MB, another name and another identifier
C14_Witness ==
    /\ resp.op = "clone_vm" /\ resp.code = 201
    /\ \E k \in DOMAIN mock_vms :
          /\ mock_vms[k]["status"] = "running"
          /\ "cpu" \in DOMAIN mock_vms[k] /\ mock_vms[k]["cpu"] = 4
          /\ DOMAIN mock_vms = {k, resp.body["id"]}
          /\ resp.body["id"] # k
          /\ resp.body["name"] # mock_vms[k]["name"]
          /\ resp.body["cpu"] = 4 /\ resp.body["memory"] = 4096
          /\ resp.body["status"] = "stopped"
          /\ mock_vms[resp.body["id"]] = resp.body

\* C15: the record a clone creates carries the override's value for every
\* field of the overrides other than id, name and status, and the source's
\* value for the fields the overrides leave out.
C15_CloneAppliesOverrides ==
    [][(resp'.op = "clone_vm" /\ resp'.code = 201) =>
          \A vm_id \in PathIds, d \in Configs :
             clone_vm(vm_id, d) =>
                LET src == mock_vms[vm_id]
                    r   == resp'.body
                IN  /\ \A k \in Inherited(d) : k \in DOMAIN r /\ r[k] = d[k]
                    /\ \A k \in Inherited(src) \ DOMAIN d :
                          k \in DOMAIN r /\ r[k] = src[k]]_vars

\* the connector holds a VM whose identifier is not the one of `config`
OtherId(config) ==
    /\ _config # <<>>
    /\ "id" \in DOMAIN config
    /\ config["id"] # self_id

\* C16: reconfigure with a configuration whose identifier is not the VM's
\* raises ValueError, sends no request, and leaves the store and the
\* connector's local copy as they were.
C16_ReconfigureOtherIdRejected ==
    [][call'.method = "reconfigure" =>
          \A config \in VMConfigs :
             (OtherId(config) /\ reconfigure(config))
             => /\ call'.raised = "ValueError"
                /\ resp' = resp
                /\ mock_vms' = mock_vms
                /\ _config' = _config]_vars

\* reconfigure has raised ValueError on the VM created last: the last
\* request the daemon saw is still that create, and the stored record and
\* the local copy are still its answer
C16_Witness ==
    /\ call = Call("reconfigure", "ValueError")
    /\ resp.op = "create_vm" /\ resp.code = 201
    /\ _config = <<resp.body>>
    /\ self_id \in DOMAIN mock_vms
    /\ mock_vms[self_id] = resp.body
    /\ "cpu" \in DOMAIN resp.body

\* C17: after a reconfigure that succeeds the stored record has the
\* identifier and the status it had before and, besides them, exactly the
\* fields of the configuration with the configuration's values.
C17_ReconfigureReplaces ==
    [][(call'.method = "reconfigure" /\ call'.raised = "") =>
          \A config \in VMConfigs :
             (_config # <<>> /\ reconfigure(config)) =>
                LET old == mock_vms[self_id]
                    new == mock_vms'[self_id]
                IN  /\ new["id"] = old["id"]
                    /\ new["status"] = old["status"]
                    /\ DOMAIN new = DOMAIN config \cup {"id", "status"}
                    /\ \A k \in DOMAIN config \ {"id", "status"} :
                          new[k] = config[k]]_vars

\* a patch the VM in hand accepts: no identifier or its own, no bad name
Patch(config) ==
    /\ _config # <<>>
    /\ self_id \in DOMAIN mock_vms
    /\ "id" \in DOMAIN config => config["id"] \in {None, self_id}
    /\ "name" \in DOMAIN config => ~BadName(config)

\* the fields a patch sets
Patched(config) == DOMAIN config \ {"id"}

\* C18: update_config with such a patch succeeds; the record then has the
\* patch's value in every field of the patch and is otherwise as it was,
\* and so is every other record.
C18_UpdateConfigMerges ==
    [][call'.method = "update_config" =>
          \A config \in VMConfigs :
             (Patch(config) /\ update_config(config)) =>
                /\ call'.raised = ""
                /\ DOMAIN mock_vms' = DOMAIN mock_vms
                /\ \A k \in DOMAIN mock_vms \ {self_id} :
                      mock_vms'[k] = mock_vms[k]
                /\ LET old == mock_vms[self_id]
                       new == mock_vms'[self_id]
                   IN  /\ DOMAIN new = DOMAIN old \cup Patched(config)
                       /\ \A k \in Patched(config) : new[k] = config[k]
                       /\ \A k \in DOMAIN old \ Patched(config) :
                             new[k] = old[k]]_vars

\* C19: a PUT whose name is not a string that is non-empty after trimming
\* is answered 422 and a PUT to an identifier that is not in the store is
\* answered 404; neither changes any record.
C19_RejectedUpdateChangesNothing ==
    [][resp'.op = "update_vm" =>
          \A vm_id \in PathIds, d \in Updates :
             update_vm(vm_id, d) =>
                /\ vm_id \notin DOMAIN mock_vms
                     => resp'.code = 404 /\ mock_vms' = mock_vms
                /\ (vm_id \in DOMAIN mock_vms /\ "name" \in DOMAIN d /\ BadName(d))
                     => resp'.code = 422 /\ mock_vms' = mock_vms]_vars

\* a PUT with a bad name was rejected; the stopped record it named, and
\* whose status and id the body also tried to set, is as it was
C19_Witness ==
    /\ resp = Response("update_vm", 422,
                       Error("Missing or invalid 'name' field in update"))
    /\ DOMAIN mock_vms = {"VM1"}
    /\ mock_vms["VM1"]["status"] = "stopped"
    /\ mock_vms["VM1"]["id"] = "VM1"

\* C20: get answers 200 with the stored record when the identifier is a key
\* of the store and 404 otherwise, and never changes the store; its answer
\* depends on nothing but the store, so repeating it gives the same record.
C20_GetReturnsStored ==
    [][resp'.op = "get_vm" =>
          \A vm_id \in PathIds :
             get_vm(vm_id) =>
                /\ mock_vms' = mock_vms
                /\ IF vm_id \in DOMAIN mock_vms
                   THEN resp'.code = 200 /\ resp'.body = mock_vms[vm_id]
                   ELSE resp'.code = 404]_vars

\* get has returned a record that a PUT had modified
C20_Witness ==
    \E k \in DOMAIN mock_vms :
        /\ resp = Response("get_vm", 200, mock_vms[k])
        /\ mock_vms[k]["status"] = "running"

\* the records of a list answer that have identifier vm_id
Listed(body, vm_id) == {r \in DOMAIN body : r["id"] = vm_id}

Occurs(s, sub) ==
    \E off \in 0..Len(s) :
        /\ off + Len(sub) <= Len(s)
        /\ \A j \in 1..Len(sub) : s[off + j] = sub[j]

\* C22: list without a filter answers with every record of the store, and
\* list with a filter string with exactly the records whose name has the
\* filter as a substring; list changes nothing.
C22_ListFilters ==
    [][resp'.op = "list_vms" =>
          \A search \in Searches :
             list_vms(search) =>
                LET keys == IF search = NoSearch
                            THEN DOMAIN mock_vms
                            ELSE {k \in DOMAIN mock_vms :
                                     Occurs(mock_vms[k]["name"].s, search[1])}
                IN  /\ resp'.code = 200
                    /\ resp'.body = ListOf(keys)
                    /\ mock_vms' = mock_vms]_vars

\* a list answer with one record, named "ab", of a store with two records
C22_Witness ==
    /\ resp.op = "list_vms"
    /\ Cardinality(DOMAIN mock_vms) = 2
    /\ \E k \in DOMAIN mock_vms :
          /\ mock_vms[k]["name"] = Str(<<"a", "b">>)
          /\ resp.body = ListOf({k})
    /\ \E k \in DOMAIN mock_vms : mock_vms[k]["name"] = Str(<<"a">>)

\* the connector methods that change a VM
Mutating == {"rename", "reconfigure", "update_config"} \cup Actions

\* C23: a rename, reconfigure, update_config or lifecycle call that raises,
\* whether the daemon answered with an error or the transport failed, leaves
\* the connector's local copy exactly as it was.
C23_NoOptimisticUpdate ==
    [][(call'.method \in Mutating /\ call'.raised # "") => _config' = _config]_vars

\* start has failed in the transport after the daemon had handled it: the
\* record is running and the local copy still says stopped
C23_Witness ==
    /\ call = Call("start", "RequestError")
    /\ net = "lossy"
    /\ self_id \in DOMAIN mock_vms
    /\ mock_vms[self_id]["status"] = "running"
    /\ _config[1]["status"] = "stopped"

\* C24: when the last connector call was a mutating one that succeeded, the
\* local copy is the record the store holds under its identifier.
C24_LocalCopyIsStoredRecord ==
    (call.method \in Mutating /\ call.raised = "")
    => /\ self_id \in DOMAIN mock_vms
       /\ _config[1] = mock_vms[self_id]

\* the error kind that belongs to an answer of the daemon
ErrorKind(code) ==
    CASE code = 404 -> "NotFoundError"
      [] code = 422 -> "ValidationError"
      [] code = 409 -> "ConflictError"
      [] OTHER      -> "HTTPStatusError"

\* C25: a call that the daemon answers with 404, 422 or 409 raises
\* NotFoundError, ValidationError or ConflictError, and a call whose request
\* fails in the transport raises TransportError.
C25_DomainErrorKinds ==
    [][/\ (net = "up" /\ resp' # resp /\ resp'.code \in {404, 422, 409})
             => call'.raised = ErrorKind(resp'.code)
       /\ (net # "up" /\ call' # call
             /\ call'.raised \notin {"ValueError", "AttributeError"})
             => call'.raised = "TransportError"]_vars

\* C26: every record of the store that has a cpu field has an integer
\* cpu >= 1, and every record that has a memory field an integer memory >= 1.
C26_CpuMemoryMinimums ==
    \A k \in DOMAIN mock_vms :
        /\ "cpu" \in DOMAIN mock_vms[k] => mock_vms[k]["cpu"] \in Nat \ {0}
        /\ "memory" \in DOMAIN mock_vms[k] => mock_vms[k]["memory"] \in Nat \ {0}

\* C27: two lifecycle requests for one VM that are handled at the same time
\* end as if they had been handled one after the other; in particular every
\* request that is answered 200 is answered with the status of its own action.
C27_LifecycleSerialized ==
    \A w \in Workers :
        (handling[w].pc = "idle" /\ handling[w].code = 200)
        => handling[w].body["status"] = new_status(handling[w].action)

\* C28: a lifecycle request for an identifier that is not in the store is
\* answered 404, whatever its action; one for a VM of the store with an
\* action other than start, stop, pause, resume is answered 400; neither
\* changes the store.
C28_LifecycleRejections ==
    [][resp'.op = "vm_lifecycle" =>
          \A vm_id \in PathIds, action \in PathActions :
             vm_lifecycle(vm_id, action) =>
                /\ vm_id \notin DOMAIN mock_vms
                     => resp'.code = 404 /\ mock_vms' = mock_vms
                /\ (vm_id \in DOMAIN mock_vms /\ action \notin Actions)
                     => resp'.code = 400 /\ mock_vms' = mock_vms]_vars

\* an unknown action on a running VM was answered 400
C28_Witness ==
    /\ resp = Response("vm_lifecycle", 400, Error("Invalid action"))
    /\ DOMAIN mock_vms = {"VM1"}
    /\ mock_vms["VM1"]["status"] = "running"

\* C29: a lifecycle action that is answered 200 changes the status of the
\* VM it names and nothing else: the VM's other fields, the identifiers in
\* the store and every other record are as they were.
C29_LifecycleChangesStatusOnly ==
    [][(resp'.op = "vm_lifecycle" /\ resp'.code = 200) =>
          \A vm_id \in PathIds, action \in Actions :
             vm_lifecycle(vm_id, action) =>
                /\ DOMAIN mock_vms' = DOMAIN mock_vms
                /\ \A k \in DOMAIN mock_vms \ {vm_id} : mock_vms'[k] = mock_vms[k]
                /\ DOMAIN mock_vms'[vm_id] = DOMAIN mock_vms[vm_id]
                /\ \A f \in DOMAIN mock_vms[vm_id] \ {"status"} :
                      mock_vms'[vm_id][f] = mock_vms[vm_id][f]]_vars

\* a VM with 4 cpus was paused while the store held a second VM
C29_Witness ==
    /\ resp.op = "vm_lifecycle" /\ resp.code = 200
    /\ resp.body["status"] = "paused"
    /\ "cpu" \in DOMAIN resp.body /\ resp.body["cpu"] = 4
    /\ Cardinality(DOMAIN mock_vms) = 2
    /\ mock_vms[resp.body["id"]] = resp.body

\* C30: once shutdown has been requested the event stays set, every later
\* /status answer says "shutting_down", a further request for shutdown changes
\* nothing, the launcher's status command says "Daemon not running." once the
\* process is gone, and the process does exit
C30_ShutdownIsFinal ==
    /\ [][daemon.shutdown_event =>
            /\ daemon'.shutdown_event
            /\ (resp'.op = "status" /\ resp' # resp) =>
                   /\ resp'.body["status"] = "shutting_down"
                   /\ daemon'.state = "shutting_down"
            /\ daemon'.state # daemon.state => daemon'.state = "shutting_down"
            /\ (resp'.op = "shutdown" /\ resp' # resp) =>
                   /\ daemon' = daemon
                   /\ mock_vms' = mock_vms
            /\ (daemon.main = "exited" /\ daemon'.msg # daemon.msg) =>
                   daemon'.msg = "Daemon not running."]_vars
    /\ daemon.shutdown_event ~> daemon.main = "exited"

\* the daemon answered "shutting_down", has exited after a request for
\* shutdown, and the launcher has said so
C30_Witness ==
    /\ daemon.shutdown_event
    /\ daemon.state = "shutting_down"
    /\ daemon.main = "exited"
    /\ daemon.msg = "Daemon not running."

\* C31: `start` issued while a daemon is running starts no further daemon, says
\* that a daemon is already running, and exits with code 0
C31_StartIsIdempotent ==
    [][(/\ launcher.pc = "idle"
        /\ _find_daemon_pid # None
        /\ launcher'.pc = "idle"
        /\ launcher'.result.cmd = "start"
        /\ launcher'.result # launcher.result) =>
           /\ daemon' = daemon
           /\ launcher'.result.msg = "A mock_hypervisor daemon is already running"
           /\ launcher'.result.exit_code = 0]_vars

\* C32: `start` without --port reports the positive port the new daemon
\* announced on its standard output
C32_AutoPortReported ==
    [][(/\ launcher.pc = "sleep"
        /\ launcher.port = <<0>>
        /\ launcher'.pc = "idle"
        /\ launcher'.result.returncode = 0) =>
           /\ daemon.port > 0
           /\ launcher'.result.port = <<daemon.port>>]_vars

\* the label VM<n> for the smallest n >= 1 that is not a key of the store
SmallestUnused(vm_id) ==
    \E n \in 1..(MaxVMs + 1) :
       /\ vm_id = VMLabel(n)
       /\ vm_id \notin DOMAIN mock_vms
       /\ \A j \in 1..(n - 1) : VMLabel(j) \in DOMAIN mock_vms

\* C33: a create or clone without an identifier stores its record under VM<n>
\* for the smallest n >= 1 that is not a key of the store at that moment, so
\* the identifier of a deleted record is assigned again
C33_SmallestUnusedLabel ==
    [][(resp'.op \in {"create_vm", "clone_vm"} /\ resp'.code = 201) =>
          /\ \A d \in Configs :
                ("id" \notin DOMAIN d /\ create_vm(d)) =>
                   /\ SmallestUnused(resp'.body["id"])
                   /\ DOMAIN mock_vms' = DOMAIN mock_vms \cup {resp'.body["id"]}
          /\ \A vm_id \in PathIds, d \in Configs :
                ("id" \notin DOMAIN d /\ clone_vm(vm_id, d)) =>
                   /\ SmallestUnused(resp'.body["id"])
                   /\ DOMAIN mock_vms' = DOMAIN mock_vms \cup {resp'.body["id"]}]_vars

\* VM1 was deleted while VM2 existed, and the next create was given VM1
C33_Witness ==
    /\ resp.op = "create_vm" /\ resp.code = 201
    /\ resp.body["id"] = "VM1"
    /\ DOMAIN mock_vms = {"VM1", "VM2"}

\* the step adds one record and leaves every record of before as it was
AddsOneRecord ==
    /\ Cardinality(DOMAIN mock_vms') = Cardinality(DOMAIN mock_vms) + 1
    /\ \A k \in DOMAIN mock_vms :
          k \in DOMAIN mock_vms' /\ mock_vms'[k] = mock_vms[k]

\* C34: every successful create, with or without an `id` in the payload, adds
\* exactly one record and leaves every record of before present and unchanged
C34_CreateNeverReplaces ==
    [][(resp'.op = "create_vm" /\ resp'.code = 201) => AddsOneRecord]_vars

\* C35: a successful clone, whatever its overrides, adds exactly one record
\* and leaves the source and every other record of before unchanged; a clone
\* that fails changes nothing
C35_CloneNeverAlters ==
    [][resp'.op = "clone_vm" =>
          IF resp'.code = 201 THEN AddsOneRecord ELSE mock_vms' = mock_vms]_vars

\* C36: two create requests without identifier, handled at the same time by
\* two worker threads, are stored under two different identifiers: when both
\* have been answered 201, both records are in the store
C36_ConcurrentCreatesDistinct ==
    \A w1, w2 \in Workers :
       (/\ w1 # w2
        /\ handling[w1].pc = "idle" /\ handling[w1].action = "create"
        /\ handling[w1].code = 201
        /\ handling[w2].pc = "idle" /\ handling[w2].action = "create"
        /\ handling[w2].code = 201) =>
          /\ handling[w1].vm_id # handling[w2].vm_id
          /\ handling[w1].vm_id \in DOMAIN mock_vms
          /\ handling[w2].vm_id \in DOMAIN mock_vms

\* dictionary `after` is dictionary `before` with another name
OnlyNameChanged(before, after, new_name) ==
    /\ DOMAIN after = DOMAIN before \cup {"name"}
    /\ after["name"] = new_name
    /\ \A k \in DOMAIN before \ {"name"} : after[k] = before[k]

\* C37: after a successful rename the stored record and the local copy have
\* the new name, and identifier, status, cpu, memory and every other field of
\* both are as before
C37_RenameChangesNameOnly ==
    [][(call'.method = "rename" /\ call'.raised = "" /\ _config # <<>>) =>
          \A new_name \in ConfigNames :
             rename(new_name) =>
                /\ self_id \in DOMAIN mock_vms
                /\ DOMAIN mock_vms' = DOMAIN mock_vms
                /\ OnlyNameChanged(mock_vms[self_id], mock_vms'[self_id], new_name)
                /\ OnlyNameChanged(_config[1], _config'[1], new_name)]_vars

\* a running VM with cpu and memory has been renamed from "a" to "ab"
C37_Witness ==
    /\ call = Call("rename", "")
    /\ _config # <<>>
    /\ _config[1]["name"] = Str(<<"a", "b">>)
    /\ self_id \in DOMAIN mock_vms
    /\ mock_vms[self_id]["name"] = Str(<<"a", "b">>)
    /\ mock_vms[self_id]["status"] = "running"
    /\ "cpu" \in DOMAIN mock_vms[self_id]

\* C38: a call of get_session for a key that is cached has one outcome
\* whatever password and hypervisor type it is given: the cached session is
\* returned, no session is built, nothing connects and nothing is raised, and
\* the same call with any other password and type is that same step
C38_CacheHitIgnoresCredentials ==
    [][\A t \in Callers :
          (/\ pc[t] = "idle"
           /\ ret'[t] # ret[t]
           /\ ret'[t].key \in DOMAIN _active_sessions) =>
             LET key == ret'[t].key
             IN  /\ ret'[t] = Return(key, _active_sessions[key])
                 /\ sessions' = sessions
                 /\ _active_sessions' = _active_sessions
                 /\ pc' = pc
                 /\ \A ty \in HypervisorTypes, pw \in Passwords :
                       get_session(t, ty, key[1], key[2], pw)]_vars

\* two sessions are cached, and the last call, for the key of the first, was
\* given the first
C38_Witness ==
    /\ ret["t1"].kind = "return"
    /\ ret["t1"].session = 1
    /\ _active_sessions[ret["t1"].key] = 1
    /\ 2 \in DOMAIN sessions
    /\ sessions[2].connected
    /\ \E k \in DOMAIN _active_sessions : _active_sessions[k] = 2

\* C39: connect raises ConnectionError exactly when the probe says the
\* session is not alive, and nothing else: a call that has left connect has
\* either passed it or raised ConnectionError
C39_ProbeIsTotal ==
    [][\A t \in Callers :
          (pc[t] = "connect" /\ pc'[t] # "connect") =>
             \/ pc'[t] = "insert" /\ sessions'[frame[t].session].connected
             \/ /\ pc'[t] = "idle"
                /\ ret'[t].kind = "ConnectionError"
                /\ ~sessions'[frame[t].session].connected]_vars

====
